---------------------------- MODULE Spec2Model ----------------------------
(***************************************************************************)
(* zk-SPARQL query rewriter and disclosed-dataset builder of oxigraph's    *)
(* server: the query parser (server/src/zk.rs), the extended-query         *)
(* builders and the disclosed-subject / metadata / proof builders          *)
(* (server/src/zk/builder.rs).                                             *)
(*                                                                         *)
(* Three specifications share the module:                                  *)
(*   Spec          parse a query, then build one extended query from it    *)
(*   SpecDisclose  build the disclosed subjects from solution rows         *)
(*   SpecPull      pull metadata, proofs and proof values from a store     *)
(***************************************************************************)
EXTENDS Integers, Sequences, FiniteSets, TLC

VARIABLES
    pc,                       \* position of the request in its pipeline
    form,                     \* spargebra::Query variant of the parsed text
    pattern,                  \* its GraphPattern (the algebra tree)
    parsed,                   \* Result<ZkQuery, HttpError> of parse_zk_query
    extended,                 \* Result of the extended-query builder that ran
    extended_solutions,       \* rows of the evaluated extended query
    extended_patterns,        \* the TriplePatternWithGraphVar list of the prove query
    disclosed_subjects,       \* Result<Vec<Quad>, ZkSparqlError>
    store,                    \* the quads of the Store
    cred_graph_ids,           \* HashSet<GraphName> of the credentials to disclose
    nymizer,                  \* the identifiers the Pseudonymizer has renamed, in order
    metadata,                 \* Result<Vec<Quad>, ZkSparqlError> of build_metadata
    proofs,                   \* Result<Vec<Quad>, ZkSparqlError> of build_proofs
    proof_values              \* Result<HashMap<GraphName, String>, _> of get_proof_values

query_vars == <<form, pattern, parsed, extended>>
disclose_vars == <<extended_solutions, extended_patterns, disclosed_subjects>>
pull_vars == <<store, cred_graph_ids, nymizer, metadata, proofs, proof_values>>
vars == <<pc, query_vars, disclose_vars, pull_vars>>

-----------------------------------------------------------------------------
(* Bounds *)

\* longest BGP (number of triple patterns) of a user query
MaxPatterns == 2

\* most solution rows the store returns for the extended query
MaxRows == 2

\* most quads in the store
MaxQuads == 3

-----------------------------------------------------------------------------
(* Result and Option *)

Ok(v) == [ok |-> TRUE, value |-> v]
Err(e) == [ok |-> FALSE, error |-> e]
None == [some |-> FALSE]
Some(v) == [some |-> TRUE, value |-> v]
NotRun == [ok |-> FALSE, error |-> "not run"]

RECURSIVE SeqsUpTo(_, _)
SeqsUpTo(S, n) ==
    IF n = 0 THEN {<<>>}
    ELSE LET shorter == SeqsUpTo(S, n - 1)
         IN  shorter \cup {Append(q, x) : q \in {r \in shorter : Len(r) = n - 1}, x \in S}

Range(q) == {q[i] : i \in 1..Len(q)}

-----------------------------------------------------------------------------
(* RDF and SPARQL terms (oxrdf, spargebra::term) *)

Variable(n) == [kind |-> "Variable", name |-> n]
NamedNode(n) == [kind |-> "NamedNode", name |-> n]
BlankNode(n) == [kind |-> "BlankNode", name |-> n]
Literal(n) == [kind |-> "Literal", name |-> n]
Triple(s, p, o) == [kind |-> "Triple", subject |-> s, predicate |-> p, object |-> o]
TriplePattern(s, p, o) == [subject |-> s, predicate |-> p, object |-> o]

RDF_TYPE == "http://www.w3.org/1999/02/22-rdf-syntax-ns#type"
VERIFIABLE_CREDENTIAL == "https://www.w3.org/2018/credentials#VerifiableCredential"
PROOF_VALUE == "https://w3id.org/security#proofValue"

\* reserved names of the module that declares the builder
VC_VARIABLE_PREFIX == "__vc"
SUBJECT_GRAPH_SUFFIX == ".subject"
PROOF_GRAPH_SUFFIX == ".proof"
\* prefix of construct_extended_query
LEGACY_VARIABLE_PREFIX == "ggggg"

-----------------------------------------------------------------------------
(* GraphPattern and Expression (spargebra::algebra) *)

Bgp(ps) == [op |-> "Bgp", patterns |-> ps]
Join(l, r) == [op |-> "Join", left |-> l, right |-> r]
Filter(e, i) == [op |-> "Filter", expr |-> e, inner |-> i]
Values(vs, bs) == [op |-> "Values", variables |-> vs, bindings |-> bs]
Project(i, vs) == [op |-> "Project", inner |-> i, variables |-> vs]
Slice(i, s, l) == [op |-> "Slice", inner |-> i, start |-> s, length |-> l]
Distinct(i) == [op |-> "Distinct", inner |-> i]
Graph(n, i) == [op |-> "Graph", name |-> n, inner |-> i]
Union(l, r) == [op |-> "Union", left |-> l, right |-> r]

ExprVariable(n) == [e |-> "Variable", name |-> n]
ExprLiteral(v) == [e |-> "Literal", value |-> v]
ExprBound(n) == [e |-> "Bound", name |-> n]
FunctionCall(f, args) == [e |-> "FunctionCall", function |-> f, args |-> args]
And(l, r) == [e |-> "And", left |-> l, right |-> r]

\* GraphPattern::default()
EmptyGroupPattern == Bgp(<<>>)

-----------------------------------------------------------------------------
(* The user queries explored *)

UserPatterns ==
    { TriplePattern(Variable("s"), NamedNode("p"), Variable("o")),
      TriplePattern(Variable("s"), NamedNode("p"), BlankNode("x")),
      TriplePattern(BlankNode("b"), Variable("x"), Variable("o")),
      TriplePattern(Variable("__vc0"), NamedNode("p"), Literal("l")),
      TriplePattern(Variable("ggggg0"), NamedNode("p"), NamedNode("a")),
      TriplePattern(Triple(BlankNode("b"), NamedNode("p"), Variable("s")),
                    NamedNode("p"), Variable("o")) }

PatternLists == SeqsUpTo(UserPatterns, MaxPatterns)

UserFilter == ExprBound("s")
UserValues == Values(<<"o">>, << <<Some(NamedNode("a"))>>, <<None>> >>)
UserSlices == {[start |-> 2, length |-> Some(5)], [start |-> 0, length |-> None]}
Projections == {<<"s">>, <<"o", "z">>}
Forms == {"Select", "Ask", "Construct", "Describe"}

\* spargebra never joins with an empty BGP (its join drops the empty side)
IsEmptyBgp(g) == g.op = "Bgp" /\ g.patterns = <<>>

Leaves(ps) == {Bgp(ps), UserValues}
Joined(ps) ==
    {Join(l, r) : l \in Leaves(ps), r \in Leaves(ps)} \
    {j \in {Join(l, r) : l \in Leaves(ps), r \in Leaves(ps)} :
        IsEmptyBgp(j.left) \/ IsEmptyBgp(j.right)}
Unfiltered(ps) == Leaves(ps) \cup Joined(ps) \cup {Union(Bgp(ps), Bgp(ps))}
Filtered(ps) == {Filter(UserFilter, i) : i \in Unfiltered(ps)}
Cores(ps) ==
    Unfiltered(ps) \cup Filtered(ps) \cup {Filter(UserFilter, i) : i \in Filtered(ps)}

Sliced(S) == {Slice(i, l.start, l.length) : i \in S, l \in UserSlices}
Projected(S) == {Project(i, v) : i \in S, v \in Projections}

Roots(ps) ==
    LET c == Cores(ps)
    IN  c \cup Projected(c) \cup Sliced(c) \cup Sliced(Projected(c))
          \cup Projected(Sliced(c)) \cup {Distinct(p) : p \in Projected(c)}

\* a CONSTRUCT or DESCRIBE carries the pattern of its WHERE clause
Trees(f, ps) == IF f \in {"Select", "Ask"} THEN Roots(ps) ELSE Cores(ps)


-----------------------------------------------------------------------------
(* Query parser (server/src/zk.rs) *)

RECURSIVE TermVariables(_)
TermVariables(t) ==
    CASE t.kind = "Variable" -> {t.name}
      [] t.kind = "Triple" ->
            TermVariables(t.subject) \cup TermVariables(t.predicate)
                \cup TermVariables(t.object)
      [] OTHER -> {}

TriplePatternVariables(tp) ==
    TermVariables(tp.subject) \cup TermVariables(tp.predicate)
        \cup TermVariables(tp.object)

\* GraphPattern::on_in_scope_variable, collected into a set
RECURSIVE on_in_scope_variable(_)
on_in_scope_variable(g) ==
    CASE g.op = "Bgp" -> UNION {TriplePatternVariables(tp) : tp \in Range(g.patterns)}
      [] g.op \in {"Join", "Union"} ->
            on_in_scope_variable(g.left) \cup on_in_scope_variable(g.right)
      [] g.op \in {"Filter", "Slice", "Distinct"} -> on_in_scope_variable(g.inner)
      [] g.op = "Values" -> Range(g.variables)
      [] g.op = "Project" -> Range(g.variables)
      [] g.op = "Graph" ->
            on_in_scope_variable(g.inner)
                \cup (IF g.name.kind = "Variable" THEN {g.name.name} ELSE {})

ZkQueryLimit(start, length) == [start |-> start, length |-> length]
ZkQueryValues(variables, bindings) == [variables |-> variables, bindings |-> bindings]

ZkQuery(disclosed_variables, in_scope_variables, patterns, filter, values, limit) ==
    [disclosed_variables |-> disclosed_variables,
     in_scope_variables |-> in_scope_variables,
     patterns |-> patterns,
     filter |-> filter,
     values |-> values,
     limit |-> limit]

IsValuesJoinBgp(g) ==
    g.op = "Join" /\ g.left.op = "Values" /\ g.right.op = "Bgp"

parse_zk_common(g, disclosed_variables, limit) ==
    LET in_scope_variables == on_in_scope_variable(g)
    IN  CASE g.op = "Filter" ->
                (CASE g.inner.op = "Bgp" ->
                        Ok(ZkQuery(disclosed_variables, in_scope_variables,
                                   g.inner.patterns, Some(g.expr), None, limit))
                   [] IsValuesJoinBgp(g.inner) ->
                        Ok(ZkQuery(disclosed_variables, in_scope_variables,
                                   g.inner.right.patterns, Some(g.expr),
                                   Some(ZkQueryValues(g.inner.left.variables,
                                                      g.inner.left.bindings)),
                                   limit))
                   [] OTHER -> Err("invalid query"))
          [] g.op = "Bgp" ->
                Ok(ZkQuery(disclosed_variables, in_scope_variables,
                           g.patterns, None, None, limit))
          [] IsValuesJoinBgp(g) ->
                Ok(ZkQuery(disclosed_variables, in_scope_variables,
                           g.right.patterns, None,
                           Some(ZkQueryValues(g.left.variables, g.left.bindings)),
                           limit))
          [] OTHER -> Err("invalid query")

parse_zk_select(g) ==
    CASE g.op = "Slice" ->
            (IF g.inner.op = "Project"
             THEN parse_zk_common(g.inner.inner, g.inner.variables,
                                  Some(ZkQueryLimit(g.start, g.length)))
             ELSE Err("invalid SELECT query"))
      [] g.op = "Project" -> parse_zk_common(g.inner, g.variables, None)
      [] OTHER -> Err("invalid SELECT query")

\* faulty variant: the Slice of an ASK is not unwrapped
parse_zk_ask_unsliced(g) == parse_zk_common(g, <<>>, None)

parse_zk_ask(g) ==
    IF g.op = "Slice"
    THEN parse_zk_common(g.inner, <<>>, Some(ZkQueryLimit(g.start, g.length)))
    ELSE parse_zk_common(g, <<>>, None)

parse_zk_query(f, g) ==
    CASE f = "Construct" -> Err("CONSTRUCT is not supported in zk-SPARQL")
      [] f = "Describe" -> Err("DESCRIBE is not supported in zk-SPARQL")
      [] f = "Select" -> parse_zk_select(g)
      [] f = "Ask" -> parse_zk_ask(g)

-----------------------------------------------------------------------------
(* Extended-query builders (server/src/zk/builder.rs, server/src/zk.rs) *)

\* (0..n).map(|i| Variable::new_unchecked(format!("{}{}", prefix, i)))
GraphVariables(prefix, n) == [i \in 1..n |-> prefix \o ToString(i - 1)]

SelectQuery(g) ==
    [form |-> "Select", dataset |-> None, pattern |-> g, base_iri |-> None]

\* Iterator::reduce over a Vec
RECURSIVE ReduceFrom(_, _, _, _)
ReduceFrom(f, acc, q, i) ==
    IF i > Len(q) THEN acc
    ELSE ReduceFrom(f, IF f = "Join" THEN Join(acc, q[i]) ELSE And(acc, q[i]),
                    q, i + 1)

Reduce(f, q) == IF q = <<>> THEN None ELSE Some(ReduceFrom(f, q[1], q, 2))

UnwrapOrDefault(o, default) == IF o.some THEN o.value ELSE default

\* faulty variant: blank nodes are kept
blanknode_to_variable_kept(term) == term

blanknode_to_variable(term) ==
    IF term.kind = "BlankNode" THEN Variable(term.name) ELSE term

replace_blanknodes_with_variables(query) ==
    [query EXCEPT
        !.in_scope_variables = query.in_scope_variables
            \cup {tp.subject.name : tp \in {t \in Range(query.patterns) :
                                                t.subject.kind = "BlankNode"}}
            \cup {tp.object.name : tp \in {t \in Range(query.patterns) :
                                               t.object.kind = "BlankNode"}},
        !.patterns = [i \in 1..Len(query.patterns) |->
            TriplePattern(blanknode_to_variable(query.patterns[i].subject),
                          query.patterns[i].predicate,
                          blanknode_to_variable(query.patterns[i].object))]]

TriplePatternWithGraphVar(triple_pattern, graph_var) ==
    [triple_pattern |-> triple_pattern, graph_var |-> graph_var]

build_extended_triple_patterns(patterns, extended_graph_variables) ==
    IF \E i \in 1..Len(patterns) : i > Len(extended_graph_variables)
    THEN Err("ExtendedQueryFailed")
    ELSE Ok([i \in 1..Len(patterns) |->
                TriplePatternWithGraphVar(patterns[i], extended_graph_variables[i])])

GraphOf(p) == Graph(Variable(p.graph_var), Bgp(<<p.triple_pattern>>))

SubjectFilter(gvar) ==
    FunctionCall("StrEnds",
        <<FunctionCall("Str", <<ExprVariable(gvar)>>), ExprLiteral(SUBJECT_GRAPH_SUFFIX)>>)

WithValues(query, g) ==
    IF query.values.some
    THEN Join(Values(query.values.value.variables, query.values.value.bindings), g)
    ELSE g

WithLimit(query, g) ==
    IF query.limit.some
    THEN Slice(g, query.limit.value.start, query.limit.value.length)
    ELSE g

build_extended_query(query, extended_graph_variables, extended_triple_patterns) ==
    LET graphs == [i \in 1..Len(extended_triple_patterns) |->
                      GraphOf(extended_triple_patterns[i])]
        extended_bgp == UnwrapOrDefault(Reduce("Join", graphs), EmptyGroupPattern)
        extended_bgp_with_values == WithValues(query, extended_bgp)
        subject_filter_expr ==
            Reduce("And", [i \in 1..Len(extended_graph_variables) |->
                            SubjectFilter(extended_graph_variables[i])])
        extended_filter_expr ==
            IF query.filter.some
            THEN And(query.filter.value, subject_filter_expr.value)
            ELSE subject_filter_expr.value
        extended_bgp_with_values_and_filter ==
            Filter(extended_filter_expr, extended_bgp_with_values)
    IN  IF ~subject_filter_expr.some
        THEN Err("ExtendedQueryFailed")
        ELSE Ok([pattern |-> WithLimit(query, extended_bgp_with_values_and_filter),
                 variables |-> query.disclosed_variables \o extended_graph_variables])

\* faulty variant: the projection is not wrapped in Distinct
build_extended_fetch_query_undistinct(query) ==
    LET extended_graph_variables ==
            GraphVariables(VC_VARIABLE_PREFIX, Len(query.patterns))
        extended_triple_patterns ==
            build_extended_triple_patterns(query.patterns, extended_graph_variables)
        extended_query ==
            build_extended_query(query, extended_graph_variables,
                                 extended_triple_patterns.value)
    IN  IF ~extended_triple_patterns.ok THEN extended_triple_patterns
        ELSE IF ~extended_query.ok THEN extended_query
        ELSE Ok([query |-> SelectQuery(Project(extended_query.value.pattern,
                                               extended_query.value.variables)),
                 extended_triple_patterns |-> <<>>])

build_extended_fetch_query(query) ==
    LET extended_graph_variables ==
            GraphVariables(VC_VARIABLE_PREFIX, Len(query.patterns))
        extended_triple_patterns ==
            build_extended_triple_patterns(query.patterns, extended_graph_variables)
        extended_query ==
            build_extended_query(query, extended_graph_variables,
                                 extended_triple_patterns.value)
    IN  IF ~extended_triple_patterns.ok THEN extended_triple_patterns
        ELSE IF ~extended_query.ok THEN extended_query
        ELSE Ok([query |-> SelectQuery(Distinct(Project(extended_query.value.pattern,
                                                        extended_query.value.variables))),
                 extended_triple_patterns |-> <<>>])

\* iteration is the order in which the HashSet in_scope_variables is drained
build_extended_prove_query(query, iteration) ==
    LET new_query == replace_blanknodes_with_variables(query)
        extended_graph_variables ==
            GraphVariables(VC_VARIABLE_PREFIX, Len(new_query.patterns))
        extended_triple_patterns ==
            build_extended_triple_patterns(new_query.patterns, extended_graph_variables)
        extended_query ==
            build_extended_query(new_query, extended_graph_variables,
                                 extended_triple_patterns.value)
    IN  IF ~extended_triple_patterns.ok THEN extended_triple_patterns
        ELSE IF ~extended_query.ok THEN extended_query
        ELSE Ok([query |-> SelectQuery(Distinct(Project(extended_query.value.pattern,
                                                        iteration))),
                 extended_triple_patterns |-> extended_triple_patterns.value])

\* server/src/zk.rs
construct_extended_query(query) ==
    LET extended_graph_variables ==
            GraphVariables(LEGACY_VARIABLE_PREFIX, Len(query.patterns))
        graphs == [i \in 1..Len(query.patterns) |->
                      Graph(Variable(extended_graph_variables[i]),
                            Bgp(<<query.patterns[i]>>))]
        extended_bgp == UnwrapOrDefault(Reduce("Join", graphs), EmptyGroupPattern)
        extended_bgp_with_values == WithValues(query, extended_bgp)
        extended_bgp_with_values_and_filter ==
            IF query.filter.some
            THEN Filter(query.filter.value, extended_bgp_with_values)
            ELSE extended_bgp_with_values
        extended_graph_pattern == WithLimit(query, extended_bgp_with_values_and_filter)
        extended_variables == query.disclosed_variables \o extended_graph_variables
    IN  Ok([query |-> SelectQuery(Distinct(Project(extended_graph_pattern,
                                                   extended_variables))),
            extended_triple_patterns |-> <<>>])

\* the orders in which a HashSet may yield its elements
RECURSIVE Iterations(_)
Iterations(S) ==
    IF S = {} THEN {<<>>}
    ELSE UNION {{<<x>> \o q : q \in Iterations(S \ {x})} : x \in S}

-----------------------------------------------------------------------------
(* Disclosed-subject builder (server/src/zk/builder.rs) *)

Quad(s, p, o, g) == [subject |-> s, predicate |-> p, object |-> o, graph_name |-> g]

\* HashMap::get
Get(map, key) == IF key \in DOMAIN map THEN Some(map[key]) ELSE None

build_disclosed_subject(solution, pattern_with_graph_var) ==
    LET triple_pattern == pattern_with_graph_var.triple_pattern
        graph_var == pattern_with_graph_var.graph_var
        failed == Err("FailedBuildingDisclosedSubject")
        g == IF ~Get(solution, graph_var).some THEN failed
             ELSE IF Get(solution, graph_var).value.kind = "NamedNode"
             THEN Ok(Get(solution, graph_var).value)
             ELSE failed
        s == CASE triple_pattern.subject.kind = "Variable" ->
                    (IF ~Get(solution, triple_pattern.subject.name).some THEN failed
                     ELSE IF Get(solution, triple_pattern.subject.name).value.kind
                                = "NamedNode"
                     THEN Ok(Get(solution, triple_pattern.subject.name).value)
                     ELSE failed)
               [] triple_pattern.subject.kind \in {"NamedNode", "BlankNode"} ->
                    Ok(triple_pattern.subject)
               [] OTHER -> failed
        p == IF triple_pattern.predicate.kind = "Variable"
             THEN (IF ~Get(solution, triple_pattern.predicate.name).some THEN failed
                   ELSE IF Get(solution, triple_pattern.predicate.name).value.kind
                              = "NamedNode"
                   THEN Ok(Get(solution, triple_pattern.predicate.name).value)
                   ELSE failed)
             ELSE Ok(triple_pattern.predicate)
        o == CASE triple_pattern.object.kind = "Variable" ->
                    (IF ~Get(solution, triple_pattern.object.name).some THEN failed
                     ELSE Ok(Get(solution, triple_pattern.object.name).value))
               [] triple_pattern.object.kind \in {"NamedNode", "BlankNode", "Literal"} ->
                    Ok(triple_pattern.object)
               [] triple_pattern.object.kind = "Triple" -> failed
    IN  IF ~g.ok THEN g
        ELSE IF ~s.ok THEN s
        ELSE IF ~p.ok THEN p
        ELSE IF ~o.ok THEN o
        ELSE Ok(Quad(s.value, p.value, o.value, g.value))

\* iter.collect::<Result<Vec<_>, _>>(): the first error, or every value
RECURSIVE CollectFrom(_, _, _)
CollectFrom(results, i, acc) ==
    IF i > Len(results) THEN Ok(acc)
    ELSE IF ~results[i].ok THEN results[i]
    ELSE CollectFrom(results, i + 1, Append(acc, results[i].value))

Collect(results) == CollectFrom(results, 1, <<>>)

\* into_iter().flatten().collect()
RECURSIVE Flatten(_)
Flatten(qs) == IF qs = <<>> THEN <<>> ELSE Head(qs) \o Flatten(Tail(qs))

\* faulty variant: rows and patterns that fail are skipped
build_disclosed_subjects_skipping(solutions, extended_triple_patterns) ==
    LET quads == Flatten([r \in 1..Len(solutions) |->
                    [i \in 1..Len(extended_triple_patterns) |->
                        build_disclosed_subject(solutions[r],
                                                extended_triple_patterns[i])]])
    IN  Ok(SelectSeq([k \in 1..Len(quads) |-> IF quads[k].ok THEN quads[k].value
                                               ELSE quads[k]],
                     LAMBDA q : "subject" \in DOMAIN q))

\* faulty variant: the quads are produced pattern by pattern
build_disclosed_subjects_by_pattern(solutions, extended_triple_patterns) ==
    LET per_pattern == [i \in 1..Len(extended_triple_patterns) |->
            Collect([r \in 1..Len(solutions) |->
                        build_disclosed_subject(solutions[r],
                                                extended_triple_patterns[i])])]
        disclosed == Collect(per_pattern)
    IN  IF disclosed.ok THEN Ok(Flatten(disclosed.value)) ELSE disclosed

build_disclosed_subjects(solutions, extended_triple_patterns) ==
    LET per_solution == [r \in 1..Len(solutions) |->
            Collect([i \in 1..Len(extended_triple_patterns) |->
                        build_disclosed_subject(solutions[r],
                                                extended_triple_patterns[i])])]
        disclosed == Collect(per_solution)
    IN  IF disclosed.ok THEN Ok(Flatten(disclosed.value)) ELSE disclosed

-----------------------------------------------------------------------------
(* Pseudonymizer (section 4.5 of the specification) *)

DefaultGraph == [kind |-> "DefaultGraph"]

\* the pseudonym of the k-th identifier renamed in this request
Pseudonym(k) == NamedNode("urn:nym:" \o ToString(k))

IndexOf(q, x) == CHOOSE k \in 1..Len(q) : q[k] = x

\* rename one identifier position: [nymizer, term]
pseudonymize_term(nym, term, additional_targets) ==
    IF term.kind = "BlankNode" \/ (term.kind = "NamedNode" /\ term \in additional_targets)
    THEN IF term \in Range(nym)
         THEN [nymizer |-> nym, term |-> Pseudonym(IndexOf(nym, term))]
         ELSE [nymizer |-> Append(nym, term), term |-> Pseudonym(Len(nym) + 1)]
    ELSE [nymizer |-> nym, term |-> term]

\* Pseudonymizer::pseudonymize_quad: [nymizer, quad]
pseudonymize_quad(nym, quad, additional_targets) ==
    LET s == pseudonymize_term(nym, quad.subject, additional_targets)
        p == pseudonymize_term(s.nymizer, quad.predicate, additional_targets)
        o == pseudonymize_term(p.nymizer, quad.object, additional_targets)
        g == pseudonymize_term(o.nymizer, quad.graph_name, additional_targets)
    IN  [nymizer |-> g.nymizer, quad |-> Quad(s.term, p.term, o.term, g.term)]

-----------------------------------------------------------------------------
(* Metadata and proof puller (server/src/zk/builder.rs) *)

\* the quads a store may hold, in the order its scans yield them
CandidateQuads ==
    << Quad(NamedNode("a"), NamedNode(RDF_TYPE), NamedNode(VERIFIABLE_CREDENTIAL),
            NamedNode("g" \o SUBJECT_GRAPH_SUFFIX)),
       Quad(NamedNode("a"), NamedNode("knows"), NamedNode("b"),
            NamedNode("g" \o SUBJECT_GRAPH_SUFFIX)),
       Quad(NamedNode("a"), NamedNode(PROOF_VALUE), Literal("z0"),
            NamedNode("g" \o SUBJECT_GRAPH_SUFFIX)),
       Quad(BlankNode("k"), NamedNode(RDF_TYPE), NamedNode(VERIFIABLE_CREDENTIAL),
            NamedNode("h" \o SUBJECT_GRAPH_SUFFIX)),
       Quad(NamedNode("b"), NamedNode("knows"), NamedNode("a"),
            NamedNode("h" \o SUBJECT_GRAPH_SUFFIX)),
       Quad(NamedNode("prf"), NamedNode(RDF_TYPE), NamedNode("DataIntegrityProof"),
            NamedNode("g" \o SUBJECT_GRAPH_SUFFIX \o PROOF_GRAPH_SUFFIX)),
       Quad(NamedNode("prf"), NamedNode(PROOF_VALUE), Literal("z1"),
            NamedNode("g" \o SUBJECT_GRAPH_SUFFIX \o PROOF_GRAPH_SUFFIX)),
       Quad(NamedNode("prf"), NamedNode(PROOF_VALUE), NamedNode("z2"),
            NamedNode("g" \o SUBJECT_GRAPH_SUFFIX \o PROOF_GRAPH_SUFFIX)),
       Quad(NamedNode("prf"), NamedNode(PROOF_VALUE), Literal("z3"),
            NamedNode("h" \o SUBJECT_GRAPH_SUFFIX \o PROOF_GRAPH_SUFFIX)),
       Quad(BlankNode("k"), NamedNode("knows"), NamedNode("a"),
            NamedNode("h" \o SUBJECT_GRAPH_SUFFIX)),
       Quad(BlankNode("k"), NamedNode("created"), Literal("l"),
            NamedNode("h" \o SUBJECT_GRAPH_SUFFIX \o PROOF_GRAPH_SUFFIX)) >>

CandidateGraphIds ==
    {NamedNode("g" \o SUBJECT_GRAPH_SUFFIX), NamedNode("h" \o SUBJECT_GRAPH_SUFFIX),
     DefaultGraph}

Matches(want, term) == ~want.some \/ want.value = term

\* Store::quads_for_pattern
quads_for_pattern(quads, subject, predicate, object, graph_name) ==
    SelectSeq(CandidateQuads,
              LAMBDA q : /\ q \in quads
                         /\ Matches(subject, q.subject)
                         /\ Matches(predicate, q.predicate)
                         /\ Matches(object, q.object)
                         /\ Matches(graph_name, q.graph_name))

\* the scan that collects the additional pseudonymization targets
additional_targets_of(quads, graph_id, predicate, object) ==
    LET found == quads_for_pattern(quads, None, predicate, object, Some(graph_id))
    IN  Collect([k \in 1..Len(found) |->
            CASE found[k].subject.kind = "NamedNode" -> Ok(found[k].subject)
              [] found[k].subject.kind = "BlankNode" -> Err("BlankNodeMustBeSkolemized")
              [] found[k].subject.kind = "Triple" ->
                    Err("FailedBuildingCredentialMetadata")])

\* the quads of the pull that go on to the pseudonymizer
KeptQuad(q) == q.predicate # NamedNode(PROOF_VALUE)

RECURSIVE NymizeFrom(_, _, _, _, _)
NymizeFrom(nym, quads, additional_targets, k, acc) ==
    IF k > Len(quads) THEN [nymizer |-> nym, result |-> Ok(acc)]
    ELSE LET step == pseudonymize_quad(nym, quads[k], additional_targets)
         IN  NymizeFrom(step.nymizer, quads, additional_targets, k + 1,
                        Append(acc, step.quad))

\* the closure pull_and_nymize: [nymizer, result]
pull_and_nymize(quads, nym, graph_id, predicate, object) ==
    LET additional_targets == additional_targets_of(quads, graph_id, predicate, object)
        pulled == SelectSeq(quads_for_pattern(quads, None, None, None, Some(graph_id)),
                            KeptQuad)
    IN  IF ~additional_targets.ok
        THEN [nymizer |-> nym, result |-> additional_targets]
        ELSE NymizeFrom(nym, pulled, Range(additional_targets.value), 1, <<>>)

RECURSIVE PullFrom(_, _, _, _, _, _, _)
PullFrom(quads, nym, graph_ids, predicate, object, k, acc) ==
    IF k > Len(graph_ids) THEN [nymizer |-> nym, result |-> Ok(acc)]
    ELSE LET step == pull_and_nymize(quads, nym, graph_ids[k], predicate, object)
         IN  IF ~step.result.ok THEN step
             ELSE PullFrom(quads, step.nymizer, graph_ids, predicate, object, k + 1,
                           acc \o step.result.value)

\* graph_ids lists the HashSet in the order it is iterated: [nymizer, result]
build_metadata_or_proofs(graph_ids, predicate, object, quads, nym) ==
    PullFrom(quads, nym, graph_ids, predicate, object, 1, <<>>)

gen_proof_graph_id(cred_graph_id) ==
    IF cred_graph_id.kind = "NamedNode"
    THEN Ok(NamedNode(cred_graph_id.name \o PROOF_GRAPH_SUFFIX))
    ELSE Err("FailedBuildingDisclosedDataset")

\* Ok(the set of proof graph names), or the error
gen_proof_graph_ids(graph_ids) ==
    IF \E g \in graph_ids : ~gen_proof_graph_id(g).ok
    THEN Err("FailedBuildingDisclosedDataset")
    ELSE Ok({gen_proof_graph_id(g).value : g \in graph_ids})

build_metadata(graph_ids, quads, nym) ==
    build_metadata_or_proofs(graph_ids, Some(NamedNode(RDF_TYPE)),
                             Some(NamedNode(VERIFIABLE_CREDENTIAL)), quads, nym)

\* proof_graph_ids lists gen_proof_graph_ids(cred_graph_ids) as it is iterated
build_proofs(proof_graph_ids, quads, nym) ==
    build_metadata_or_proofs(proof_graph_ids, Some(NamedNode(RDF_TYPE)), None, quads, nym)

\* faulty variant: the first proof value is taken, however many there are
proof_value_of_first(quads, proof_graph_id) ==
    LET found == quads_for_pattern(quads, None, Some(NamedNode(PROOF_VALUE)), None,
                                   Some(proof_graph_id))
    IN  IF Len(found) >= 1 /\ found[1].object.kind = "Literal"
        THEN Ok(found[1].object.name)
        ELSE Err("InvalidProofValues")

proof_value_of(quads, proof_graph_id) ==
    LET found == quads_for_pattern(quads, None, Some(NamedNode(PROOF_VALUE)), None,
                                   Some(proof_graph_id))
    IN  IF Len(found) = 1 /\ found[1].object.kind = "Literal"
        THEN Ok(found[1].object.name)
        ELSE Err("InvalidProofValues")

\* Ok(the map from proof graph name to proof value), or the error
get_proof_values(graph_ids, quads) ==
    LET proof_graph_ids == gen_proof_graph_ids(graph_ids)
    IN  IF ~proof_graph_ids.ok THEN proof_graph_ids
        ELSE IF \E g \in proof_graph_ids.value : ~proof_value_of(quads, g).ok
        THEN Err("InvalidProofValues")
        ELSE Ok([g \in proof_graph_ids.value |-> proof_value_of(quads, g).value])

PullIdle ==
    /\ store = {}
    /\ cred_graph_ids = {}
    /\ nymizer = <<>>
    /\ metadata = NotRun
    /\ proofs = NotRun
    /\ proof_values = NotRun

-----------------------------------------------------------------------------
(* Specification of the query pipeline *)

Init ==
    /\ pc = "start"
    /\ form \in Forms
    /\ \E ps \in PatternLists : pattern \in Trees(form, ps)
    /\ parsed = NotRun
    /\ extended = NotRun
    /\ extended_solutions = <<>>
    /\ extended_patterns = <<>>
    /\ disclosed_subjects = NotRun
    /\ PullIdle

ParseZkQuery ==
    /\ pc = "start"
    /\ parsed' = parse_zk_query(form, pattern)
    /\ pc' = IF parsed'.ok THEN "parsed" ELSE "bad_request"
    /\ UNCHANGED <<form, pattern, extended, disclose_vars, pull_vars>>

BuildExtendedFetchQuery ==
    /\ pc = "parsed"
    /\ extended' = build_extended_fetch_query(parsed.value)
    /\ pc' = "fetch"
    /\ UNCHANGED <<form, pattern, parsed, disclose_vars, pull_vars>>

BuildExtendedProveQuery ==
    /\ pc = "parsed"
    /\ \E iteration \in
            Iterations(replace_blanknodes_with_variables(parsed.value).in_scope_variables) :
            extended' = build_extended_prove_query(parsed.value, iteration)
    /\ pc' = "prove"
    /\ UNCHANGED <<form, pattern, parsed, disclose_vars, pull_vars>>

ConstructExtendedQuery ==
    /\ pc = "parsed"
    /\ extended' = construct_extended_query(parsed.value)
    /\ pc' = "extended"
    /\ UNCHANGED <<form, pattern, parsed, disclose_vars, pull_vars>>

Next ==
    \/ ParseZkQuery
    \/ BuildExtendedFetchQuery
    \/ BuildExtendedProveQuery
    \/ ConstructExtendedQuery

Spec == Init /\ [][Next]_vars

-----------------------------------------------------------------------------
(* Specification of the disclosed-subject builder *)

QuotedTriple == Triple(NamedNode("a"), NamedNode("p"), Literal("l"))

DisclosePatterns ==
    { TriplePattern(Variable("s"), NamedNode("p"), Variable("o")),
      TriplePattern(Variable("s"), Variable("x"), Literal("l")),
      TriplePattern(BlankNode("b"), NamedNode(PROOF_VALUE), BlankNode("b")),
      TriplePattern(Literal("l"), NamedNode("p"), Variable("o")),
      TriplePattern(QuotedTriple, NamedNode("p"), NamedNode("a")),
      TriplePattern(NamedNode("a"), NamedNode("p"), QuotedTriple) }

GoodRow ==
    [v \in {"s", "x", "o"} \cup Range(GraphVariables(VC_VARIABLE_PREFIX, MaxPatterns)) |->
        CASE v = "s" -> NamedNode("a")
          [] v = "x" -> NamedNode("p")
          [] v = "o" -> Literal("l")
          [] OTHER -> NamedNode("g" \o SUBJECT_GRAPH_SUFFIX)]

Without(row, v) == [w \in DOMAIN row \ {v} |-> row[w]]

Rows ==
    {GoodRow}
    \cup {Without(GoodRow, v) : v \in {"s", "x", "o", VC_VARIABLE_PREFIX \o "0"}}
    \cup {[GoodRow EXCEPT !["s"] = BlankNode("b")],
          [GoodRow EXCEPT !["x"] = NamedNode(PROOF_VALUE)],
          [GoodRow EXCEPT !["o"] = QuotedTriple],
          [GoodRow EXCEPT ![VC_VARIABLE_PREFIX \o "0"] = Literal("l")],
          [GoodRow EXCEPT ![VC_VARIABLE_PREFIX \o "0"] = NamedNode("h" \o SUBJECT_GRAPH_SUFFIX)]}

InitDisclose ==
    /\ pc = "prove"
    /\ form = "Select"
    /\ pattern = EmptyGroupPattern
    /\ parsed = NotRun
    /\ extended = NotRun
    /\ extended_solutions = <<>>
    /\ \E ps \in SeqsUpTo(DisclosePatterns, MaxPatterns) :
            extended_patterns =
                build_extended_triple_patterns(
                    ps, GraphVariables(VC_VARIABLE_PREFIX, Len(ps))).value
    /\ disclosed_subjects = NotRun
    /\ PullIdle

\* the store yields one more solution of the extended query
NextSolution ==
    /\ pc = "prove"
    /\ Len(extended_solutions) < MaxRows
    /\ \E row \in Rows : extended_solutions' = Append(extended_solutions, row)
    /\ UNCHANGED <<pc, query_vars, extended_patterns, disclosed_subjects, pull_vars>>

BuildDisclosedSubjects ==
    /\ pc = "prove"
    /\ disclosed_subjects' =
            build_disclosed_subjects(extended_solutions, extended_patterns)
    /\ pc' = "disclosed"
    /\ UNCHANGED <<query_vars, extended_solutions, extended_patterns, pull_vars>>

NextDisclose == NextSolution \/ BuildDisclosedSubjects

SpecDisclose == InitDisclose /\ [][NextDisclose]_vars

-----------------------------------------------------------------------------
(* Specification of the metadata and proof puller *)

InitPull ==
    /\ pc = "disclosed"
    /\ form = "Select"
    /\ pattern = EmptyGroupPattern
    /\ parsed = NotRun
    /\ extended = NotRun
    /\ extended_solutions = <<>>
    /\ extended_patterns = <<>>
    /\ disclosed_subjects = NotRun
    /\ store \in {q \in SUBSET Range(CandidateQuads) : Cardinality(q) <= MaxQuads}
    /\ cred_graph_ids \in SUBSET CandidateGraphIds
    /\ nymizer = <<>>
    /\ metadata = NotRun
    /\ proofs = NotRun
    /\ proof_values = NotRun

BuildMetadata ==
    /\ pc = "disclosed"
    /\ \E iteration \in Iterations(cred_graph_ids) :
        LET built == build_metadata(iteration, store, nymizer)
        IN  /\ metadata' = built.result
            /\ nymizer' = built.nymizer
            /\ pc' = IF built.result.ok THEN "metadata" ELSE "server_error"
    /\ UNCHANGED <<query_vars, disclose_vars, store, cred_graph_ids, proofs, proof_values>>

BuildProofs ==
    /\ pc = "metadata"
    /\ LET proof_graph_ids == gen_proof_graph_ids(cred_graph_ids)
       IN  IF ~proof_graph_ids.ok
           THEN /\ proofs' = proof_graph_ids
                /\ nymizer' = nymizer
                /\ pc' = "server_error"
           ELSE \E iteration \in Iterations(proof_graph_ids.value) :
                LET built == build_proofs(iteration, store, nymizer)
                IN  /\ proofs' = built.result
                    /\ nymizer' = built.nymizer
                    /\ pc' = IF built.result.ok THEN "proofs" ELSE "server_error"
    /\ UNCHANGED <<query_vars, disclose_vars, store, cred_graph_ids, metadata, proof_values>>

\* get_proof_values is public and reads the store alone: it may be called
\* before, between or after the pulls
GetProofValues ==
    /\ pc \in {"disclosed", "metadata", "proofs"}
    /\ proof_values' = get_proof_values(cred_graph_ids, store)
    /\ pc' = IF proof_values'.ok THEN "done" ELSE "server_error"
    /\ UNCHANGED <<query_vars, disclose_vars, store, cred_graph_ids, nymizer, metadata,
                   proofs>>

NextPull == BuildMetadata \/ BuildProofs \/ GetProofValues

SpecPull == InitPull /\ [][NextPull]_vars

-----------------------------------------------------------------------------
(* Reading an extended query *)

Built == pc \in {"fetch", "prove", "extended"} /\ extended.ok
BuiltByBuilder == pc \in {"fetch", "prove"} /\ extended.ok

\* Distinct(Project(inner, variables)) of the returned SELECT
ProjectedVariables == extended.value.query.pattern.inner.variables
ProjectedInner == extended.value.query.pattern.inner.inner

\* the ZkQuery the builder worked on: lifted for the prove variant
WorkingQuery ==
    IF pc = "prove" THEN replace_blanknodes_with_variables(parsed.value)
    ELSE parsed.value

RECURSIVE GraphNames(_)
GraphNames(g) ==
    CASE g.op = "Graph" -> {g.name.name} \cup GraphNames(g.inner)
      [] g.op \in {"Join", "Union"} -> GraphNames(g.left) \cup GraphNames(g.right)
      [] g.op \in {"Filter", "Slice", "Distinct", "Project"} -> GraphNames(g.inner)
      [] OTHER -> {}

RECURSIVE Filters(_)
Filters(g) ==
    CASE g.op = "Filter" -> <<g.expr>> \o Filters(g.inner)
      [] g.op \in {"Join", "Union"} -> Filters(g.left) \o Filters(g.right)
      [] g.op \in {"Graph", "Slice", "Distinct", "Project"} -> Filters(g.inner)
      [] OTHER -> <<>>

\* the Graph-Join chain: the pattern below Slice, Filter and the Values join
Chain(g) ==
    LET unsliced == IF g.op = "Slice" THEN g.inner ELSE g
        unfiltered == IF unsliced.op = "Filter" THEN unsliced.inner ELSE unsliced
    IN  IF unfiltered.op = "Join" /\ unfiltered.left.op = "Values"
        THEN unfiltered.right
        ELSE unfiltered

\* left-leaning Join tree of Graph(names[i], Bgp([patterns[i]])), i = 1..n
RECURSIVE LeftLeaning(_, _, _)
LeftLeaning(names, patterns, n) ==
    IF n = 1 THEN Graph(Variable(names[1]), Bgp(<<patterns[1]>>))
    ELSE Join(LeftLeaning(names, patterns, n - 1),
              Graph(Variable(names[n]), Bgp(<<patterns[n]>>)))

\* StrEnds(Str(names[1]), suffix) && ... && StrEnds(Str(names[n]), suffix)
RECURSIVE Conjunction(_, _)
Conjunction(names, n) ==
    LET last == FunctionCall("StrEnds",
                    <<FunctionCall("Str", <<ExprVariable(names[n])>>),
                      ExprLiteral(SUBJECT_GRAPH_SUFFIX)>>)
    IN  IF n = 1 THEN last ELSE And(Conjunction(names, n - 1), last)

BuilderGraphVariables == GraphVariables(VC_VARIABLE_PREFIX, Len(parsed.value.patterns))

-----------------------------------------------------------------------------
(* Claims on the query pipeline *)

\* C1: no synthesized graph variable of a built extended query has the name
\* of a variable in in_scope_variables or disclosed_variables of the ZkQuery.
C1_GraphVariableFreshness ==
    Built =>
        GraphNames(extended.value.query.pattern)
            \cap (parsed.value.in_scope_variables
                    \cup Range(parsed.value.disclosed_variables)) = {}

\* C2: the prove query is Distinct(Project(_, in_scope_variables ++ G0..G{n-1})):
\* the projection lists the lifted in-scope variables and then every graph
\* variable of the returned TriplePatternWithGraphVar list.
C2_ProveProjection ==
    (pc = "prove" /\ extended.ok) =>
        /\ extended.value.query.pattern.op = "Distinct"
        /\ extended.value.query.pattern.inner.op = "Project"
        /\ \A p \in Range(extended.value.extended_triple_patterns) :
                p.graph_var \in Range(ProjectedVariables)
        /\ \E iteration \in Iterations(WorkingQuery.in_scope_variables) :
                ProjectedVariables = iteration \o BuilderGraphVariables

\* the graph variables of the builder that ran
RanGraphVariables ==
    GraphVariables(IF pc = "extended" THEN LEGACY_VARIABLE_PREFIX ELSE VC_VARIABLE_PREFIX,
                   Len(parsed.value.patterns))

ExpectedFilter ==
    LET subject_filter == Conjunction(RanGraphVariables, Len(RanGraphVariables))
    IN  IF parsed.value.filter.some
        THEN And(parsed.value.filter.value, subject_filter)
        ELSE subject_filter

\* C3: a built extended query holds exactly one Filter; its expression is
\* And(F, subject_filter) when the user gave a filter F and subject_filter
\* otherwise, subject_filter being the conjunction, one conjunct per graph
\* variable, of StrEnds(Str(Gi), SUBJECT_GRAPH_SUFFIX).
C3_FilterComposition ==
    (Built /\ parsed.value.patterns # <<>>) =>
        Filters(extended.value.query.pattern) = <<ExpectedFilter>>

\* C3, for the builders of builder.rs alone (holds)
C3_BuilderFilterComposition ==
    BuiltByBuilder => Filters(extended.value.query.pattern) = <<ExpectedFilter>>

\* the grammar of accepted trees
IsCore(g) ==
    \/ g.op = "Bgp"
    \/ g.op = "Join" /\ g.left.op = "Values" /\ g.right.op = "Bgp"
    \/ g.op = "Filter" /\ g.inner.op = "Bgp"
    \/ g.op = "Filter" /\ g.inner.op = "Join"
          /\ g.inner.left.op = "Values" /\ g.inner.right.op = "Bgp"

IsRoot(f, g) ==
    \/ f = "Select" /\ g.op = "Project" /\ IsCore(g.inner)
    \/ f = "Select" /\ g.op = "Slice" /\ g.inner.op = "Project" /\ IsCore(g.inner.inner)
    \/ f = "Ask" /\ g.op = "Slice" /\ IsCore(g.inner)
    \/ f = "Ask" /\ IsCore(g)

\* the parts of an accepted tree
SliceOf(g) == IF g.op = "Slice" THEN Some([start |-> g.start, length |-> g.length]) ELSE None
UnslicedOf(g) == IF g.op = "Slice" THEN g.inner ELSE g
ProjectionOf(g) == IF UnslicedOf(g).op = "Project" THEN UnslicedOf(g).variables ELSE <<>>
CoreOf(g) == IF UnslicedOf(g).op = "Project" THEN UnslicedOf(g).inner ELSE UnslicedOf(g)
FilterOf(g) == IF CoreOf(g).op = "Filter" THEN Some(CoreOf(g).expr) ELSE None
UnfilteredOf(g) == IF CoreOf(g).op = "Filter" THEN CoreOf(g).inner ELSE CoreOf(g)
ValuesOf(g) ==
    IF UnfilteredOf(g).op = "Join"
    THEN Some([variables |-> UnfilteredOf(g).left.variables,
               bindings |-> UnfilteredOf(g).left.bindings])
    ELSE None
BgpOf(g) == IF UnfilteredOf(g).op = "Join" THEN UnfilteredOf(g).right ELSE UnfilteredOf(g)

\* C4: parse_zk_query succeeds exactly on the SELECT and ASK trees of the
\* grammar, fails with a client error on every other tree and on CONSTRUCT
\* and DESCRIBE, and on success copies V, P, E, (Vs, Bs) and the Slice into
\* disclosed_variables, patterns, filter, values and limit.
C4_QueryAcceptance ==
    pc # "start" =>
        /\ parsed.ok <=> IsRoot(form, pattern)
        /\ ~parsed.ok => parsed.error \in {"invalid query", "invalid SELECT query",
                                           "CONSTRUCT is not supported in zk-SPARQL",
                                           "DESCRIBE is not supported in zk-SPARQL"}
        /\ parsed.ok =>
            /\ parsed.value.disclosed_variables = ProjectionOf(pattern)
            /\ parsed.value.patterns = BgpOf(pattern).patterns
            /\ parsed.value.filter = FilterOf(pattern)
            /\ parsed.value.values = ValuesOf(pattern)
            /\ parsed.value.limit = SliceOf(pattern)

C4_Witness ==
    /\ pc = "parsed"
    /\ form = "Ask"
    /\ parsed.value.limit.some
    /\ parsed.value.values.some
    /\ parsed.value.filter.some
    /\ Len(parsed.value.patterns) = MaxPatterns

\* C5: a successfully parsed ZkQuery has every disclosed variable among its
\* in-scope variables, and a non-empty pattern list unless the query is an
\* ASK over VALUES.
C5_ShapeClosure ==
    parsed.ok =>
        /\ Range(parsed.value.disclosed_variables) \subseteq parsed.value.in_scope_variables
        /\ parsed.value.patterns # <<>> \/ (form = "Ask" /\ parsed.value.values.some)

\* C6: the fetch and prove builders succeed on every ZkQuery; the Graph-Join
\* chain is the empty group pattern for an empty pattern list and otherwise
\* the left-leaning Join tree of Graph(Gi, Bgp([Pi])) in pattern order.
C6_EmptyPatternList ==
    pc \in {"fetch", "prove"} =>
        /\ extended.ok
        /\ Chain(ProjectedInner) =
                IF WorkingQuery.patterns = <<>> THEN EmptyGroupPattern
                ELSE LeftLeaning(BuilderGraphVariables, WorkingQuery.patterns,
                                 Len(WorkingQuery.patterns))

\* C6, for the extended queries the builders do return (holds)
C6_LeftLeaningChain ==
    BuiltByBuilder =>
        Chain(ProjectedInner) =
            LeftLeaning(BuilderGraphVariables, WorkingQuery.patterns,
                        Len(WorkingQuery.patterns))

\* the VALUES joined on the left of the chain of an extended pattern
JoinedValues(g) ==
    LET unsliced == IF g.op = "Slice" THEN g.inner ELSE g
        unfiltered == IF unsliced.op = "Filter" THEN unsliced.inner ELSE unsliced
    IN  IF unfiltered.op = "Join" /\ unfiltered.left.op = "Values"
        THEN Some([variables |-> unfiltered.left.variables,
                   bindings |-> unfiltered.left.bindings])
        ELSE None

\* what lifting makes of the term t in subject or object position
IsLiftOf(new, t) ==
    IF t.kind = "BlankNode" THEN new = Variable(t.name) ELSE new = t

\* C7 amended: in the prove variant every blank node in subject or object
\* position of a user pattern becomes the variable of the same name, which is
\* added to in_scope_variables and projected; no pattern of the prove query
\* or of the returned TriplePatternWithGraphVar list has a blank node as its
\* subject or object (a blank node inside a quoted triple stays); predicates,
\* filter, values, limit and disclosed_variables stay as they were; the fetch
\* variant keeps the blank nodes.
C7_BlankNodeLifting ==
    /\ (pc = "prove" /\ extended.ok) =>
        LET old == parsed.value
            new == replace_blanknodes_with_variables(parsed.value)
            pairs == extended.value.extended_triple_patterns
        IN  /\ Len(pairs) = Len(old.patterns)
            /\ \A i \in 1..Len(pairs) :
                /\ IsLiftOf(pairs[i].triple_pattern.subject, old.patterns[i].subject)
                /\ IsLiftOf(pairs[i].triple_pattern.object, old.patterns[i].object)
                /\ pairs[i].triple_pattern.predicate = old.patterns[i].predicate
                /\ pairs[i].triple_pattern.subject.kind # "BlankNode"
                /\ pairs[i].triple_pattern.object.kind # "BlankNode"
                /\ \A t \in {old.patterns[i].subject, old.patterns[i].object} :
                        t.kind = "BlankNode" =>
                            /\ t.name \in new.in_scope_variables
                            /\ t.name \in Range(ProjectedVariables)
            /\ Chain(ProjectedInner) =
                    LeftLeaning(BuilderGraphVariables,
                                [i \in 1..Len(pairs) |-> pairs[i].triple_pattern],
                                Len(pairs))
            /\ old.in_scope_variables \subseteq new.in_scope_variables
            /\ new.filter = old.filter
            /\ new.values = old.values
            /\ new.limit = old.limit
            /\ new.disclosed_variables = old.disclosed_variables
            /\ Filters(extended.value.query.pattern) = <<ExpectedFilter>>
            /\ JoinedValues(ProjectedInner) = old.values
            /\ SliceOf(ProjectedInner) = old.limit
    /\ (pc = "fetch" /\ extended.ok) =>
        Chain(ProjectedInner) =
            LeftLeaning(BuilderGraphVariables, parsed.value.patterns,
                        Len(parsed.value.patterns))

C7_Witness ==
    /\ pc = "prove"
    /\ extended.ok
    /\ \E i, j \in 1..Len(parsed.value.patterns) :
        /\ parsed.value.patterns[i].subject.kind = "BlankNode"
        /\ parsed.value.patterns[j].object.kind = "BlankNode"
        /\ extended.value.extended_triple_patterns[i].triple_pattern.subject.kind = "Variable"
    /\ parsed.value.filter.some
    /\ parsed.value.values.some
    /\ parsed.value.limit.some

RECURSIVE HasBlankNode(_)
HasBlankNode(t) ==
    \/ t.kind = "BlankNode"
    \/ t.kind = "Triple"
          /\ (HasBlankNode(t.subject) \/ HasBlankNode(t.predicate) \/ HasBlankNode(t.object))

\* C7 as stated: besides the above, the patterns of the prove query and of
\* the returned TriplePatternWithGraphVar list contain no blank node at all.
C7_BlankNodeLifting_AsStated ==
    /\ C7_BlankNodeLifting
    /\ (pc = "prove" /\ extended.ok) =>
        \A p \in Range(extended.value.extended_triple_patterns) :
            /\ ~HasBlankNode(p.triple_pattern.subject)
            /\ ~HasBlankNode(p.triple_pattern.object)

-----------------------------------------------------------------------------
(* Claims on the disclosed-subject builder *)

\* the row binds the graph variable and the variables of the pattern to terms
\* of the kinds the quad needs
BindsAsRequired(row, pair) ==
    LET tp == pair.triple_pattern
    IN  /\ pair.graph_var \in DOMAIN row
        /\ row[pair.graph_var].kind = "NamedNode"
        /\ tp.subject.kind = "Variable" =>
                tp.subject.name \in DOMAIN row /\ row[tp.subject.name].kind = "NamedNode"
        /\ tp.predicate.kind = "Variable" =>
                tp.predicate.name \in DOMAIN row /\ row[tp.predicate.name].kind = "NamedNode"
        /\ tp.object.kind = "Variable" => tp.object.name \in DOMAIN row

\* the ground terms of the pattern can stand in a quad
GroundTermsFit(pair) ==
    /\ pair.triple_pattern.subject.kind \notin {"Triple", "Literal"}
    /\ pair.triple_pattern.object.kind # "Triple"

Substituted(term, row) == IF term.kind = "Variable" THEN row[term.name] ELSE term

ExpectedQuad(row, pair) ==
    Quad(Substituted(pair.triple_pattern.subject, row),
         Substituted(pair.triple_pattern.predicate, row),
         Substituted(pair.triple_pattern.object, row),
         row[pair.graph_var])

RowMajorQuads ==
    LET n == Len(extended_patterns)
    IN  /\ disclosed_subjects.ok
        /\ Len(disclosed_subjects.value) = Len(extended_solutions) * n
        /\ \A r \in 1..Len(extended_solutions) : \A i \in 1..n :
                /\ disclosed_subjects.value[(r - 1) * n + i] =
                        ExpectedQuad(extended_solutions[r], extended_patterns[i])
                /\ disclosed_subjects.value[(r - 1) * n + i].graph_name \in
                        {extended_solutions[k][extended_patterns[j].graph_var] :
                            k \in 1..Len(extended_solutions), j \in 1..n}

AllBoundAsRequired ==
    \A r \in 1..Len(extended_solutions) : \A i \in 1..Len(extended_patterns) :
        BindsAsRequired(extended_solutions[r], extended_patterns[i])

\* C8 as stated: for rows that bind every pattern variable and every graph
\* variable to terms of the required kinds, build_disclosed_subjects returns
\* |rows| x |patterns| quads in row-major order, the quad of row r and pattern
\* i having graph r[Gi] and the pattern's terms with variables replaced by
\* their bindings and ground terms taken literally.
C8_DisclosedSubjects_AsStated ==
    (pc = "disclosed" /\ AllBoundAsRequired) => RowMajorQuads

\* C8 amended: the same, for patterns none of which has a quoted triple as
\* subject or object or a literal as subject.
C8_DisclosedSubjects ==
    (pc = "disclosed" /\ AllBoundAsRequired
        /\ \A i \in 1..Len(extended_patterns) : GroundTermsFit(extended_patterns[i]))
    => RowMajorQuads

C8_Witness ==
    /\ pc = "disclosed"
    /\ disclosed_subjects.ok
    /\ Len(extended_solutions) = MaxRows
    /\ Len(extended_patterns) = MaxPatterns
    /\ extended_solutions[1] # extended_solutions[2]
    /\ extended_patterns[1].triple_pattern.predicate.kind = "Variable"
    /\ extended_patterns[2].triple_pattern.subject.kind = "BlankNode"
    /\ Len(disclosed_subjects.value) = MaxRows * MaxPatterns

\* a row and a pattern from which no quad can be built
FailsToBuild(row, pair) ==
    LET tp == pair.triple_pattern
    IN  \/ pair.graph_var \notin DOMAIN row
        \/ row[pair.graph_var].kind # "NamedNode"
        \/ tp.subject.kind = "Variable"
              /\ (tp.subject.name \notin DOMAIN row
                    \/ row[tp.subject.name].kind # "NamedNode")
        \/ tp.predicate.kind = "Variable"
              /\ (tp.predicate.name \notin DOMAIN row
                    \/ row[tp.predicate.name].kind # "NamedNode")
        \/ tp.object.kind = "Variable" /\ tp.object.name \notin DOMAIN row
        \/ tp.subject.kind = "Triple"
        \/ tp.object.kind = "Triple"

\* C9: if some row and some pattern have an unbound or non-NamedNode graph,
\* subject or predicate variable, an unbound object variable, or a quoted
\* triple as subject or object, build_disclosed_subjects returns an error and
\* no quad, however well-formed the other rows and patterns are.
C9_AllOrNothing ==
    (pc = "disclosed"
        /\ \E r \in 1..Len(extended_solutions) : \E i \in 1..Len(extended_patterns) :
                FailsToBuild(extended_solutions[r], extended_patterns[i]))
    => disclosed_subjects = Err("FailedBuildingDisclosedSubject")

C9_Witness ==
    /\ pc = "disclosed"
    /\ ~disclosed_subjects.ok
    /\ Len(extended_solutions) = MaxRows
    /\ Len(extended_patterns) = MaxPatterns
    /\ \A i \in 1..Len(extended_patterns) :
            /\ GroundTermsFit(extended_patterns[i])
            /\ BindsAsRequired(extended_solutions[1], extended_patterns[i])
    /\ BindsAsRequired(extended_solutions[2], extended_patterns[1])
    /\ FailsToBuild(extended_solutions[2], extended_patterns[2])

-----------------------------------------------------------------------------
(* Claims on the returned dataset *)

QuadsOf(result) == IF result.ok THEN Range(result.value) ELSE {}

\* subject, metadata and proof quads of the disclosed dataset
ReturnedQuads == QuadsOf(disclosed_subjects) \cup QuadsOf(metadata) \cup QuadsOf(proofs)

\* C10: no quad of the returned dataset, whether a subject quad from
\* build_disclosed_subjects, a metadata quad from build_metadata or a proof
\* quad from build_proofs, has sec:proofValue as predicate.
C10_ProofValueNonLeak ==
    \A q \in ReturnedQuads : q.predicate # NamedNode(PROOF_VALUE)

\* C10, for the metadata and proof quads alone (holds under SpecPull)
C10_PulledQuadsNonLeak ==
    \A q \in QuadsOf(metadata) \cup QuadsOf(proofs) : q.predicate # NamedNode(PROOF_VALUE)

-----------------------------------------------------------------------------
(* Claims about the metadata and proof pulls *)

HasBlankNodeSubject(graph_ids) ==
    \E q \in store : q.graph_name \in graph_ids /\ q.subject.kind = "BlankNode"

\* C11: if some quad pulled from a credential graph of S, or from its proof
\* graph, has a blank-node subject, then build_metadata (resp. build_proofs)
\* fails with an error instead of returning quads, whatever the predicate
\* and the object of that quad are.
C11_BlankNodeSubjectsRejected ==
    /\ metadata # NotRun /\ HasBlankNodeSubject(cred_graph_ids) => ~metadata.ok
    /\ proofs # NotRun /\ gen_proof_graph_ids(cred_graph_ids).ok
            /\ HasBlankNodeSubject(gen_proof_graph_ids(cred_graph_ids).value)
        => ~proofs.ok

\* C11, for the quads the scan for additional targets yields: a blank-node
\* subject of an rdf:type cred:VerifiableCredential quad makes build_metadata
\* fail with BlankNodeMustBeSkolemized
C11_ScannedBlankNodeSubjectsRejected ==
    metadata # NotRun
        /\ (\E q \in store : /\ q.graph_name \in cred_graph_ids
                              /\ q.subject.kind = "BlankNode"
                              /\ q.predicate = NamedNode(RDF_TYPE)
                              /\ q.object = NamedNode(VERIFIABLE_CREDENTIAL))
    => metadata = Err("BlankNodeMustBeSkolemized")

\* the name of the proof graph of credential graph g
ProofGraphName(g) == NamedNode(g.name \o PROOF_GRAPH_SUFFIX)

\* the quads of the store in graph g whose predicate is sec:proofValue
ProofValueQuads(g) ==
    {q \in store : q.graph_name = g /\ q.predicate = NamedNode(PROOF_VALUE)}

\* C12: get_proof_values succeeds only if every graph name of S is a named
\* node and its proof graph (g ++ PROOF_GRAPH_SUFFIX) holds exactly one quad
\* with predicate sec:proofValue, whose object is a literal; on success the
\* map has exactly one entry per graph of S, keyed by the name of the proof
\* graph, whose value is that literal.
C12_ProofValueCardinality ==
    proof_values # NotRun /\ proof_values.ok =>
        /\ \A g \in cred_graph_ids :
                /\ g.kind = "NamedNode"
                /\ Cardinality(ProofValueQuads(ProofGraphName(g))) = 1
                /\ \A q \in ProofValueQuads(ProofGraphName(g)) :
                        /\ q.object.kind = "Literal"
                        /\ proof_values.value[ProofGraphName(g)] = q.object.name
        /\ DOMAIN proof_values.value = {ProofGraphName(g) : g \in cred_graph_ids}
        /\ Cardinality(DOMAIN proof_values.value) = Cardinality(cred_graph_ids)

\* get_proof_values has returned the proof values of two credential graphs
C12_Witness ==
    /\ proof_values # NotRun /\ proof_values.ok
    /\ Cardinality(cred_graph_ids) = 2
    /\ Cardinality(DOMAIN proof_values.value) = 2

\* get_proof_values has failed on a proof graph that holds two proof values
C12_WitnessTwoValues ==
    /\ proof_values = Err("InvalidProofValues")
    /\ \E g \in cred_graph_ids :
            g.kind = "NamedNode" /\ Cardinality(ProofValueQuads(ProofGraphName(g))) = 2

-----------------------------------------------------------------------------
(* Claims about the shape of the extended query *)

\* C13: the query build_extended_fetch_query returns is a SELECT with no
\* dataset and no base IRI whose pattern is
\* Distinct(Project(inner, disclosed_variables ++ G0..G{n-1})): the disclosed
\* variables in the order of the user, then the graph variables in index
\* order, Gi being the graph variable of the GRAPH clause of the i-th triple
\* pattern, one graph variable per pattern and one pattern per graph variable.
C13_FetchProjection ==
    (pc = "fetch" /\ extended.ok) =>
        LET q == extended.value.query
            n == Len(parsed.value.patterns)
            G == BuilderGraphVariables
        IN  /\ q.form = "Select" /\ q.dataset = None /\ q.base_iri = None
            /\ q.pattern.op = "Distinct"
            /\ q.pattern.inner.op = "Project"
            /\ ProjectedVariables = parsed.value.disclosed_variables \o G
            /\ Len(G) = n
            /\ \A i, j \in 1..n : G[i] = G[j] => i = j
            /\ Chain(ProjectedInner) = LeftLeaning(G, parsed.value.patterns, n)

\* a fetch query over two patterns that discloses two variables
C13_Witness ==
    /\ pc = "fetch" /\ extended.ok
    /\ Len(parsed.value.patterns) = 2
    /\ Len(parsed.value.disclosed_variables) = 2
    /\ Len(ProjectedVariables) = 4

\* the chain of GRAPH clauses the builder that ran is to produce
ExpectedChain ==
    IF WorkingQuery.patterns = <<>> THEN EmptyGroupPattern
    ELSE LeftLeaning(RanGraphVariables, WorkingQuery.patterns,
                     Len(WorkingQuery.patterns))

\* Distinct(Project(Slice(Filter(Join(Values, chain))))), Slice and Values
\* being there exactly when the ZkQuery has a limit, resp. values
NestedInOrder ==
    LET q == WorkingQuery
        inner == ProjectedInner
        unsliced == IF q.limit.some THEN inner.inner ELSE inner
        joined == unsliced.inner
    IN  /\ extended.value.query.pattern.op = "Distinct"
        /\ extended.value.query.pattern.inner.op = "Project"
        /\ IF q.limit.some
           THEN /\ inner.op = "Slice"
                /\ inner.start = q.limit.value.start
                /\ inner.length = q.limit.value.length
           ELSE inner.op # "Slice"
        /\ unsliced.op = "Filter"
        /\ IF q.values.some
           THEN /\ joined.op = "Join"
                /\ joined.left = Values(q.values.value.variables,
                                        q.values.value.bindings)
                /\ joined.right = ExpectedChain
           ELSE joined = ExpectedChain

\* C14: the pattern handed to Project is Slice(Filter(Join(Values, chain))):
\* the Values join is there iff the ZkQuery has values, Values being the
\* left operand with variables and bindings unchanged; the Slice is there
\* iff the ZkQuery has a limit, with start and length copied, and wraps the
\* Filter; Project and Distinct are applied outside the Slice.
C14_NestingOrder == Built => NestedInOrder

\* C14, for the builders of builder.rs alone (holds)
C14_BuilderNestingOrder == BuiltByBuilder => NestedInOrder

\* C14, whenever the query holds a Filter: also the builder of zk.rs nests
\* Values, Filter and Slice in this order (holds)
C14_NestingOrderOfFiltered ==
    (Built /\ Filters(extended.value.query.pattern) # <<>>) => NestedInOrder

\* C15: in the prove variant the variable created for a blank node _:b is
\* not a variable that occurs in the user patterns or in in_scope_variables,
\* so that two positions of the patterns that held different terms before
\* the lifting hold different terms after it.
C15_LiftingInjective ==
    (pc = "prove" /\ extended.ok) =>
        LET old == parsed.value.patterns
            new == extended.value.extended_triple_patterns
            user_variables ==
                parsed.value.in_scope_variables
                    \cup UNION {TriplePatternVariables(tp) : tp \in Range(old)}
            positions == {"subject", "predicate", "object"}
        IN  /\ \A i \in 1..Len(old) : \A pos \in {"subject", "object"} :
                    old[i][pos].kind = "BlankNode" =>
                        /\ new[i].triple_pattern[pos].kind = "Variable"
                        /\ new[i].triple_pattern[pos].name \notin user_variables
            /\ \A i, j \in 1..Len(old) : \A pos, other \in positions :
                    old[i][pos] # old[j][other] =>
                        new[i].triple_pattern[pos] # new[j].triple_pattern[other]

\* C15, for the blank nodes among themselves: two different blank nodes are
\* lifted to two different variables (holds)
C15_DistinctBlankNodesStayDistinct ==
    (pc = "prove" /\ extended.ok) =>
        LET old == parsed.value.patterns
            new == extended.value.extended_triple_patterns
        IN  \A i, j \in 1..Len(old) : \A pos, other \in {"subject", "object"} :
                (/\ old[i][pos].kind = "BlankNode"
                 /\ old[j][other].kind = "BlankNode"
                 /\ old[i][pos] # old[j][other])
                => new[i].triple_pattern[pos] # new[j].triple_pattern[other]

\* the identifiers in the four positions of a quad
IdentifiersOf(q) == {q.subject, q.predicate, q.object, q.graph_name}

\* C16: once build_metadata and build_proofs have run over all the graphs
\* with the one pseudonymizer of the request, no named node that was replaced
\* by its pseudonym in some output quad stands unchanged in another output
\* quad.
C16_ConsistentPseudonymization ==
    pc = "proofs" =>
        \A x \in Range(nymizer) :
            x.kind = "NamedNode" =>
                \A q \in QuadsOf(metadata) \cup QuadsOf(proofs) : x \notin IdentifiersOf(q)

\* C16, within the pull of one graph: a named node among the additional
\* targets of the only credential graph is in no metadata quad (holds)
C16_ConsistentWithinOneGraph ==
    (pc = "metadata" /\ Cardinality(cred_graph_ids) = 1) =>
        \A x \in Range(nymizer) :
            x.kind = "NamedNode" =>
                \A q \in QuadsOf(metadata) : x \notin IdentifiersOf(q)

=============================================================================
